---- MODULE Spec2Model ----
(***************************************************************************)
(* The campaign command line of final/campaign/__main__.py (one process    *)
(* per invocation, all invocations sharing one work directory) and the     *)
(* scoring callback score_wrapper of recsys/lesson5/config.py.             *)
(*                                                                         *)
(* Fractions of the configuration (sample_frac, test_size, cutoff_step,    *)
(* cutoff) are kept as integer percentages.                                *)
(***************************************************************************)
EXTENDS Integers, Sequences, FiniteSets, TLC

(* ----------------------------- bounds ---------------------------------- *)

\* Most rows the source tables yield (one row per customer).
MaxRows == 4
\* Most command-line invocations on the work directory in one behaviour.
MaxRuns == 3
\* Most rows of the interaction matrix X handed to score_wrapper.
MaxX == 2
\* Largest value constants.AT_K takes (the constants module is not part of
\* the sources; the claim is checked for every value up to this one).
MaxAtK == 2

(* ----------------------------- universe -------------------------------- *)

Names == {"a", "b"}

\* The keys of _tasks.
Tasks == {"featurise", "train", "inference"}

\* Values of --task: the three keys and one string that is no key (the
\* function is spelled featurize, the key featurise).
TaskArgs == Tasks \cup {"featurize"}

OutDirs == {"artifacts", "metrics", "submits"}

SourceTables == <<"campaigns", "customers", "receipts">>

NoFile == [kind |-> "absent"]

NoConfig == [kind |-> "none"]

Range(s) == {s[i] : i \in DOMAIN s}

Min(a, b) == IF a < b THEN a ELSE b

\* The injective sequences of length k over the set S.
InjSeqs(S, k) == {s \in [1..k -> S] : \A i, j \in 1..k : s[i] = s[j] => i = j}

(* ------------------------------ state ---------------------------------- *)

VARIABLES
    \* the work directory
    srcRows,      \* the customers of the source tables under data/ (never written)
    dataFiles,    \* the source files under data/ that can be read (never written)
    dirs,         \* the output directories that exist
    features,     \* name -> data/{name}_features.parquet
    artifact,     \* name -> artifacts/{name}_pipeline.pkl
    histf,        \* name -> metrics/{name}_hist.csv
    metricsf,     \* name -> metrics/{name}_metrics.csv
    examplesf,    \* name -> metrics/{name}_examples.csv
    submit,       \* name -> submits/{name}_submit.csv
    \* the running (or last) invocation
    runs,         \* invocations started so far
    pc,           \* where the process is
    err,          \* the uncaught exception that ended it, "" if none
    task, name, config,   \* args['task'], args['name'], the loaded YAML
    cfgfile,      \* what the file at args['config'] holds
    tables,       \* the tables registered with _engine
    dirsAtStart,  \* dirs when the process started
    created,      \* the directories this process passed to os.mkdir
    log,          \* what this process did, in program order: the task function
                  \* entered (by its key), fit, results computed, files written
    features_df,  \* the sampled rows (train) or all rows (inference)
    Xcols,        \* the columns of X
    split,        \* the train/test split: positions of features_df
    pipeline,     \* the pipeline object of the process
    fitCalls,     \* the calls of pipeline.fit
    uplift,       \* pipeline.predict's result, one entry per row passed
    upliftCalls,  \* the calls of uplift_at_k
    example_df,   \* train's examples table
    customers,    \* inference's series of customers
    history,      \* name -> what happened for it so far: the tasks that completed,
                  \* and "artifact" once a train run wrote its artifact
    \* score_wrapper
    sw

fsVars == <<srcRows, dataFiles, dirs, features, artifact, histf, metricsf, examplesf, submit>>

procVars == <<runs, pc, err, task, name, config, cfgfile, tables, dirsAtStart, created,
              log>>

dataVars == <<features_df, Xcols, split, pipeline, fitCalls, uplift, upliftCalls,
              example_df, customers>>

vars == <<fsVars, procVars, dataVars, history, sw>>

(* --------------------------- input domains ----------------------------- *)

\* A cell of a dataframe: a number, or missing (NaN).
Num(v) == [nan |-> FALSE, v |-> v]

NaN == [nan |-> TRUE, v |-> 0]

\* Series.fillna(0)
FillNa(c) == IF c.nan THEN 0 ELSE c.v

\* The source tables considered: n customers; the index is the customer id,
\* unique or (dup) repeating; customers come in pairs of treated and
\* untreated, and some target cells are missing.
MkRows(n, dup) ==
    [i \in 1..n |->
        [idx  |-> IF dup THEN ((i - 1) \div 2) + 1 ELSE i,
         flag |-> IF ((i - 1) \div 2) % 2 = 0 THEN Num(1)
                  ELSE IF i % 4 = 0 THEN NaN ELSE Num(0),
         amt  |-> IF i % 2 = 1 THEN Num(i) ELSE NaN,
         disc |-> Num(1)]]

SourceData == {MkRows(n, dup) : n \in {0, MaxRows}, dup \in BOOLEAN}

\* config['calcers'], given by the columns its calcers yield, in order.
CalcerConfigs ==
    { <<"target_group_flag", "target_purchase_amt", "target_discount_sum", "f1", "f2">> }

PipelineCfg == [transformers |-> "transformers", selectors |-> "selectors", model |-> "model"]

\* The training configurations considered: sample_frac, test_size and
\* cutoff_step in percent; a bin count of zero makes numpy raise.
TrainConfigs ==
    [kind : {"train"}, sample_frac : {50, 100}, test_size : {50},
     bin_count : {0, 2}, cutoff_step : {25}, stages : {PipelineCfg}]

ConfigsFor(t) ==
    CASE t = "featurise" -> [kind : {"featurise"}, calcers : CalcerConfigs]
      [] t = "train"     -> TrainConfigs
      [] t = "inference" -> [kind : {"inference"}, cutoff : {0, 50, 100}]
      [] OTHER           -> [kind : {"inference"}, cutoff : {50}]

\* a config path that cannot be opened
Unreadable == [kind |-> "unreadable"]

NoSplit == [train |-> <<>>, test |-> <<>>]

NoPipeline == [stages |-> <<>>, fitted |-> FALSE, model |-> 0]

(* ------------------------------- Init ---------------------------------- *)

ProcInit ==
    /\ runs = 0 /\ pc = "idle" /\ err = ""
    /\ task = "featurise" /\ name = "a" /\ config = NoConfig /\ cfgfile = Unreadable
    /\ tables = <<>> /\ dirsAtStart = dirs /\ created = <<>>
    /\ log = <<>>

DataInit ==
    /\ features_df = <<>> /\ Xcols = <<>> /\ split = NoSplit /\ pipeline = NoPipeline
    /\ fitCalls = <<>> /\ uplift = <<>> /\ upliftCalls = <<>>
    /\ example_df = <<>> /\ customers = <<>>

SwIdle == [pc |-> "off"]

\* A work directory no invocation has run on yet: the source files are there
\* or not, some output directories may exist, no file of the program does.
Init ==
    /\ dataFiles \in SUBSET Range(SourceTables)
    /\ srcRows \in IF dataFiles = Range(SourceTables) THEN SourceData ELSE {<<>>}
    /\ dirs \in SUBSET OutDirs
    /\ features = [n \in Names |-> NoFile]
    /\ artifact = [n \in Names |-> NoFile]
    /\ histf = [n \in Names |-> NoFile]
    /\ metricsf = [n \in Names |-> NoFile]
    /\ examplesf = [n \in Names |-> NoFile]
    /\ submit = [n \in Names |-> NoFile]
    /\ history = [n \in Names |-> {}]
    /\ ProcInit
    /\ DataInit
    /\ sw = SwIdle

(* --------------------------- the command line -------------------------- *)

Fail(e) == pc' = "failed" /\ err' = e

\* python -m campaign -n name -t task -c config: a new process (lines 137-144).
StartRun ==
    /\ pc \in {"idle", "done", "failed"}
    /\ runs < MaxRuns
    /\ runs' = runs + 1
    /\ \E n \in Names, t \in TaskArgs :
         /\ name' = n
         /\ task' = t
         /\ cfgfile' \in ConfigsFor(t) \cup {Unreadable}
    /\ pc' = "init" /\ err' = "" /\ config' = NoConfig
    /\ tables' = <<>> /\ dirsAtStart' = dirs /\ created' = <<>>
    /\ log' = <<>>
    /\ features_df' = <<>> /\ Xcols' = <<>> /\ split' = NoSplit /\ pipeline' = NoPipeline
    /\ fitCalls' = <<>> /\ uplift' = <<>> /\ upliftCalls' = <<>>
    /\ example_df' = <<>> /\ customers' = <<>>
    /\ UNCHANGED <<fsVars, history, sw>>

\* A variant of MkdirList that makes every directory of the list, present or
\* not.
MkdirList_All == <<"artifacts", "metrics", "submits">>

\* The paths _init passes to os.mkdir: those of the list that do not exist.
MkdirList == SelectSeq(<<"artifacts", "metrics", "submits">>, LAMBDA d : d \notin dirs)

\* _init, the directories (lines 29-45).
InitDirs ==
    /\ pc = "init"
    /\ created' = MkdirList
    /\ dirs' = dirs \cup Range(MkdirList)
    /\ pc' = "register"
    /\ UNCHANGED <<srcRows, dataFiles, features, artifact, histf, metricsf, examplesf, submit,
                   runs, err, task, name, config, cfgfile, tables, dirsAtStart,
                   log, dataVars, history, sw>>

\* The tables registered before the first source file that cannot be read.
RECURSIVE Registered(_)
Registered(k) ==
    IF k > Len(SourceTables) \/ SourceTables[k] \notin dataFiles THEN <<>>
    ELSE <<SourceTables[k]>> \o Registered(k + 1)

\* _init, the tables (lines 47-49): reading a missing file raises.
RegisterTables ==
    /\ pc = "register"
    /\ tables' = Registered(1)
    /\ IF Len(Registered(1)) = Len(SourceTables)
         THEN pc' = "config" /\ err' = err
         ELSE Fail("FileNotFoundError")
    /\ UNCHANGED <<fsVars, runs, task, name, config, cfgfile, dirsAtStart, created,
                   log, dataVars, history, sw>>

\* open(args['config']) and yaml.load (lines 148-149).
LoadConfig ==
    /\ pc = "config"
    /\ IF cfgfile = Unreadable
         THEN Fail("FileNotFoundError") /\ config' = config
         ELSE pc' = "dispatch" /\ err' = err /\ config' = cfgfile
    /\ UNCHANGED <<fsVars, runs, task, name, cfgfile, tables, dirsAtStart, created,
                   log, dataVars, history, sw>>

\* Where _tasks[key] starts.
Entry(key) ==
    CASE key = "featurise" -> "featurize"
      [] key = "train"     -> "train"
      [] key = "inference" -> "inference"

\* A variant of Dispatch that falls back to featurize for an unknown key.
Dispatch_Default ==
    /\ pc = "dispatch"
    /\ pc' = (IF task \in Tasks THEN Entry(task) ELSE "featurize")
    /\ err' = err
    /\ log' = Append(log, IF task \in Tasks THEN task ELSE "featurise")
    /\ UNCHANGED <<fsVars, runs, task, name, config, cfgfile, tables, dirsAtStart, created,
                   dataVars, history, sw>>

\* _tasks[args['task']](args['name'], config) (line 151).
Dispatch ==
    /\ pc = "dispatch"
    /\ IF task \in Tasks
         THEN pc' = Entry(task) /\ err' = err /\ log' = Append(log, task)
         ELSE Fail("KeyError") /\ log' = log
    /\ UNCHANGED <<fsVars, runs, task, name, config, cfgfile, tables, dirsAtStart, created,
                   dataVars, history, sw>>

\* The task function returned: the process ends.
Complete == pc' = "done" /\ err' = err /\ history' = [history EXCEPT ![name] = @ \cup {task}]

(* ------------------------------ featurise ------------------------------ *)

\* compute_features(config['calcers'], _engine): one row per customer of the
\* registered tables, the columns of the configured calcers.
compute_features(calcers) == [kind |-> "file", cols |-> calcers, rows |-> srcRows]

\* featurize (lines 52-54).
Featurize ==
    /\ pc = "featurize"
    /\ features' = [features EXCEPT ![name] = compute_features(config.calcers)]
    /\ log' = Append(log, "write:features")
    /\ Complete
    /\ UNCHANGED <<srcRows, dataFiles, dirs, artifact, histf, metricsf, examplesf, submit,
                   runs, task, name, config, cfgfile, tables, dirsAtStart, created,
                   dataVars, sw>>

(* -------------------------------- train -------------------------------- *)

\* The largest fitted state pipeline.fit is taken to leave. What the
\* estimators compute is the library's; a fitted pipeline is one of a bounded
\* family of functions from a row to its predicted uplift.
MaxModel == 2

Models == 0..MaxModel

\* The uplift fitted state m predicts for row r: below, at and above zero,
\* with ties.
Score(m, r) == ((r * m) % 4) - 1

\* round(), Python's: halves go to the even neighbour (pandas' sample size).
RoundHalfEven(num, den) ==
    LET q == num \div den
        r == num % den
    IN  IF 2 * r < den THEN q
        ELSE IF 2 * r > den THEN q + 1
        ELSE IF q % 2 = 0 THEN q ELSE q + 1

CeilDiv(a, b) == (a + b - 1) \div b

\* The increasing sequence of the elements of the set S of integers.
RECURSIVE SortedSeq(_)
SortedSeq(S) ==
    IF S = {} THEN <<>>
    ELSE LET m == CHOOSE x \in S : \A y \in S : x <= y
         IN  <<m>> \o SortedSeq(S \ {m})

RECURSIVE SumOver(_, _)
SumOver(S, f) ==
    IF S = {} THEN 0
    ELSE LET x == CHOOSE x \in S : TRUE IN f[x] + SumOver(S \ {x}, f)

\* arr[idxs], positional.
Take(arr, idxs) == [i \in 1..Len(idxs) |-> arr[idxs[i]]]

\* features_dd.sample(frac=...).compute() (lines 59-62): round(frac * n) of
\* the file's rows, drawn by the seeded generator; any such subset.
Samples(rows, frac) ==
    LET k == RoundHalfEven(frac * Len(rows), 100)
    IN  {SortedSeq(S) : S \in {T \in SUBSET (1..Len(rows)) : Cardinality(T) = k}}

FileRows == features[name].rows

\* X, w and y of train (lines 64-68) for the sampled rows df, one entry per
\* row of df; pos is the row's position in df, idx its index label.
XframeOf(df) == [p \in 1..Len(df) |->
                    [pos |-> p, idx |-> FileRows[df[p]].idx, row |-> df[p]]]

WserOf(df) == [p \in 1..Len(df) |-> [pos |-> p, val |-> FillNa(FileRows[df[p]].flag)]]

YserOf(df) == [p \in 1..Len(df) |->
                  [pos |-> p,
                   val |-> 28 * FillNa(FileRows[df[p]].amt)
                           - FillNa(FileRows[df[p]].disc)
                           - 1 * FillNa(FileRows[df[p]].flag)]]

Xframe == XframeOf(features_df)

Wser == WserOf(features_df)

Yser == YserOf(features_df)

\* sklearn's _approximate_mode: the allocations of draws among the classes,
\* proportional to their counts, the remainder going to the classes with the
\* largest fractional parts (ties broken by the generator).
ApproxMode(counts, draws) ==
    LET C     == DOMAIN counts
        total == SumOver(C, counts)
        fl    == [c \in C |-> (counts[c] * draws) \div total]
        rem   == [c \in C |-> (counts[c] * draws) % total]
        need  == draws - SumOver(C, fl)
    IN  {[c \in C |-> fl[c] + (IF c \in A THEN 1 ELSE 0)] :
            A \in {B \in SUBSET C : /\ Cardinality(B) = need
                                    /\ \A a \in B, b \in C \ B : rem[a] >= rem[b]}}

\* The number of entries of the series ser with value c among positions P.
CountIn(ser, P, c) == Cardinality({p \in P : ser[p].val = c})

\* train_test_split(X, y, w, test_size=..., random_state=..., stratify=w)
\* (lines 74-79): "ValueError", or the set of splits the shuffle may yield.
SplitError(w, test_size) ==
    LET m       == Len(w)
        n_test  == CeilDiv(test_size * m, 100)
        n_train == m - n_test
        classes == {w[p].val : p \in 1..m}
    IN  \/ m = 0
        \/ n_train = 0
        \/ \E c \in classes : CountIn(w, 1..m, c) < 2
        \/ n_train < Cardinality(classes)
        \/ n_test < Cardinality(classes)

\* The splits the shuffle may yield: every stratified partition, the rows of
\* each part in any order.
Splits(w, test_size) ==
    LET m       == Len(w)
        n_test  == CeilDiv(test_size * m, 100)
        n_train == m - n_test
        classes == {w[p].val : p \in 1..m}
        counts  == [c \in classes |-> CountIn(w, 1..m, c)]
        Parts(P, n, alloc) ==
            {s \in InjSeqs(P, n) : \A c \in classes : CountIn(w, Range(s), c) = alloc[c]}
    IN  UNION { UNION { UNION { {[train |-> tr, test |-> te] :
                                   te \in Parts((1..m) \ Range(tr), n_test, t_i)} :
                                tr \in Parts(1..m, n_train, n_i)} :
                        t_i \in ApproxMode([c \in classes |-> counts[c] - n_i[c]], n_test)} :
                n_i \in ApproxMode(counts, n_train)}

\* Pipeline([('transform', ...), ('select', ...), ('model', ...)]) (lines 70-72).
NewPipeline(cfg) ==
    [stages |-> <<[step |-> "transform", built |-> cfg.transformers],
                  [step |-> "select", built |-> cfg.selectors],
                  [step |-> "model", built |-> cfg.model]>>,
     fitted |-> FALSE, model |-> 0]

\* train, lines 58-79: read and sample the features, build X, w, y and the
\* pipeline, split.
TrainPrepare ==
    /\ pc = "train"
    /\ IF features[name] = NoFile
         THEN /\ Fail("FileNotFoundError")
              /\ UNCHANGED <<features_df, Xcols, split, pipeline>>
         ELSE \E smp \in Samples(features[name].rows, config.sample_frac) :
              /\ features_df' = smp
              /\ Xcols' = SubSeq(features[name].cols, 4, Len(features[name].cols))
              /\ pipeline' = NewPipeline(config.stages)
              /\ IF SplitError(WserOf(smp), config.test_size)
                   THEN Fail("ValueError") /\ split' = split
                   ELSE /\ split' \in Splits(WserOf(smp), config.test_size)
                        /\ pc' = "fit" /\ err' = err
    /\ UNCHANGED <<fsVars, runs, task, name, config, cfgfile, tables, dirsAtStart, created,
                   log, fitCalls, uplift, upliftCalls, example_df,
                   customers, history, sw>>

\* A variant of FitArgs that fits on every sampled row.
FitArgs_AllRows ==
    [X |-> Xframe,
     y |-> Yser,
     fit_params |-> {[step |-> "model", param |-> "w", value |-> Take(Wser, split.train)]}]

\* The arguments of pipeline.fit (line 81): X_train, y_train and the fit
\* parameter model__w, which Pipeline routes to parameter w of step 'model'.
FitArgs ==
    [X |-> Take(Xframe, split.train),
     y |-> Take(Yser, split.train),
     fit_params |-> {[step |-> "model", param |-> "w", value |-> Take(Wser, split.train)]}]

\* A variant of TrainFit that does not write the artifact.
TrainFit_NoDump ==
    /\ pc = "fit"
    /\ fitCalls' = Append(fitCalls, [stages |-> [i \in 1..Len(pipeline.stages) |->
                                                    pipeline.stages[i].step]] @@ FitArgs)
    /\ pipeline' = [pipeline EXCEPT !.fitted = TRUE]
    /\ log' = log \o <<"fit">>
    /\ pc' = "evaluate"
    /\ UNCHANGED <<fsVars, runs, err, task, name, config, cfgfile, tables, dirsAtStart,
                   created, features_df, Xcols, split, uplift, upliftCalls, example_df,
                   customers, history, sw>>

\* The fitted state pipeline.fit leaves for these arguments: the library's
\* computation, a function of the training rows (every seed is fixed).
FitModel(args) ==
    SumOver(1..Len(args.X), [i \in 1..Len(args.X) |-> args.X[i].row]) % (MaxModel + 1)

\* pipeline.fit(X_train, y_train, model__w=w_train), then pickle.dump(pipeline, f)
\* into {name}_pipeline.pkl (lines 81-84).
TrainFit ==
    /\ pc = "fit"
    /\ fitCalls' = Append(fitCalls, [stages |-> [i \in 1..Len(pipeline.stages) |->
                                                    pipeline.stages[i].step]] @@ FitArgs)
    /\ pipeline' = [pipeline EXCEPT !.fitted = TRUE, !.model = FitModel(FitArgs)]
    /\ artifact' = [artifact EXCEPT ![name] = [kind |-> "file", pipeline |-> pipeline']]
    /\ log' = log \o <<"fit", "write:artifact">>
    /\ history' = [history EXCEPT ![name] = @ \cup {"artifact"}]
    /\ pc' = "evaluate"
    /\ UNCHANGED <<srcRows, dataFiles, dirs, features, histf, metricsf, examplesf, submit,
                   runs, err, task, name, config, cfgfile, tables, dirsAtStart, created,
                   features_df, Xcols, split, uplift, upliftCalls, example_df, customers,
                   sw>>

\* pipeline.predict(X): one prediction per row of X, in X's order.
Predict(p, X) == [i \in 1..Len(X) |-> [pos |-> X[i].pos, val |-> Score(p.model, X[i].row)]]

\* np.arange(step, 1, step) in percent (line 95).
Arange(step) == [i \in 1..((100 - 1) \div step) |-> i * step]

\* The arguments of one call uplift_at_k(uplift, w.values, y.values, k)
\* (line 96), uplift being pipeline.predict(X_test) (line 86).
UpliftArgs(k) ==
    [uplift |-> Predict(pipeline, Take(Xframe, split.test)), w |-> Wser, y |-> Yser, k |-> k]

\* The column 'sample' of example_df (lines 101-103): missing, then 'train'
\* for every row whose index label is one of X_train.index, then 'test' for
\* every row whose index label is one of X_test.index. assigned counts the
\* assignments that reached the row.
SampleColumn ==
    LET trainIdx == {Xframe[split.train[i]].idx : i \in 1..Len(split.train)}
        testIdx  == {Xframe[split.test[i]].idx : i \in 1..Len(split.test)}
    IN  [p \in 1..Len(Xframe) |->
            [sample   |-> IF Xframe[p].idx \in testIdx THEN "test"
                          ELSE IF Xframe[p].idx \in trainIdx THEN "train"
                          ELSE "nan",
             assigned |-> (IF Xframe[p].idx \in trainIdx THEN 1 ELSE 0)
                          + (IF Xframe[p].idx \in testIdx THEN 1 ELSE 0)]]

\* example_df (lines 100-106).
ExampleDf ==
    [p \in 1..Len(Xframe) |->
        [pos |-> p, idx |-> Xframe[p].idx,
         sample |-> SampleColumn[p].sample, assigned |-> SampleColumn[p].assigned,
         w |-> Wser[p].val, y |-> Yser[p].val,
         uplift |-> Predict(pipeline, Xframe)[p].val]]

\* train, lines 86-106, the evaluation: the predictions of X_test, their
\* histogram (numpy raises ValueError for fewer than one bin), the metric at
\* every cutoff (what uplift_at_k does with its arguments is not in the
\* sources: it returns a number or raises), and the examples table.
TrainEvaluate ==
    /\ pc = "evaluate"
    /\ uplift' = Predict(pipeline, Take(Xframe, split.test))
    /\ \/ /\ config.bin_count < 1
          /\ Fail("ValueError")
          /\ log' = log \o <<"uplift">>
          /\ UNCHANGED <<upliftCalls, example_df>>
       \/ /\ config.bin_count >= 1
          /\ Len(Arange(config.cutoff_step)) > 0
          /\ upliftCalls' = <<UpliftArgs(Arange(config.cutoff_step)[1])>>
          /\ Fail("uplift_at_k")
          /\ log' = log \o <<"uplift", "hist">>
          /\ UNCHANGED example_df
       \/ /\ config.bin_count >= 1
          /\ upliftCalls' = [i \in 1..Len(Arange(config.cutoff_step)) |->
                                UpliftArgs(Arange(config.cutoff_step)[i])]
          /\ example_df' = ExampleDf
          /\ log' = log \o <<"uplift", "hist", "metrics", "examples">>
          /\ pc' = "write" /\ err' = err
    /\ UNCHANGED <<fsVars, runs, task, name, config, cfgfile, tables, dirsAtStart,
                   created, features_df, Xcols, split, pipeline, fitCalls, customers,
                   history, sw>>

\* train, lines 108-110: hist_ss, metrics_ss and example_df are written, in
\* this order (the examples file is kept by its number of rows; the table
\* written is example_df). train returns.
TrainWrite ==
    /\ pc = "write"
    /\ histf' = [histf EXCEPT ![name] = [kind |-> "file", bins |-> config.bin_count]]
    /\ metricsf' = [metricsf EXCEPT ![name] =
                       [kind |-> "file", cutoffs |-> Arange(config.cutoff_step)]]
    /\ examplesf' = [examplesf EXCEPT ![name] = [kind |-> "file", nrows |-> Len(example_df)]]
    /\ log' = log \o <<"write:hist", "write:metrics", "write:examples">>
    /\ Complete
    /\ UNCHANGED <<srcRows, dataFiles, dirs, features, artifact, submit,
                   runs, task, name, config, cfgfile, tables, dirsAtStart, created,
                   dataVars, sw>>

(* ------------------------------ inference ------------------------------ *)

\* features_dd = dd.read_parquet(...)[columns[3:]] (lines 114-115).
InferRead ==
    /\ pc = "inference"
    /\ IF features[name] = NoFile
         THEN Fail("FileNotFoundError") /\ Xcols' = Xcols
         ELSE /\ Xcols' = SubSeq(features[name].cols, 4, Len(features[name].cols))
              /\ pc' = "load" /\ err' = err
    /\ UNCHANGED <<fsVars, runs, task, name, config, cfgfile, tables, dirsAtStart,
                   created, log, features_df, split, pipeline, fitCalls,
                   uplift, upliftCalls, example_df, customers, history, sw>>

\* A variant of InferLoad that goes on with an unfitted pipeline when the
\* artifact is missing.
InferLoad_Default ==
    /\ pc = "load"
    /\ pipeline' = (IF artifact[name] = NoFile THEN NoPipeline ELSE artifact[name].pipeline)
    /\ pc' = "score" /\ err' = err
    /\ UNCHANGED <<fsVars, runs, task, name, config, cfgfile, tables, dirsAtStart,
                   created, log, features_df, Xcols, split, fitCalls,
                   uplift, upliftCalls, example_df, customers, history, sw>>

\* pipeline = pickle.load(f) from {name}_pipeline.pkl (lines 117-118).
InferLoad ==
    /\ pc = "load"
    /\ IF artifact[name] = NoFile
         THEN Fail("FileNotFoundError") /\ pipeline' = pipeline
         ELSE pipeline' = artifact[name].pipeline /\ pc' = "score" /\ err' = err
    /\ UNCHANGED <<fsVars, runs, task, name, config, cfgfile, tables, dirsAtStart,
                   created, log, features_df, Xcols, split, fitCalls,
                   uplift, upliftCalls, example_df, customers, history, sw>>

\* A variant of Positive that keeps the rows of uplift zero.
Positive_OrZero(u) == SelectSeq(u, LAMBDA e : e.val >= 0)

\* features_df.loc[features_df['uplift'] > 0.0, :] (line 122): the rows kept.
Positive(u) == SelectSeq(u, LAMBDA e : e.val > 0)

\* sort_values('uplift', ascending=False) (line 123): the orders the sort may
\* yield; rows of equal uplift come in any order (the sort is not stable).
SortedDesc(u) ==
    {[i \in 1..Len(u) |-> u[s[i]]] :
        s \in {t \in InjSeqs(1..Len(u), Len(u)) :
                 \A i, j \in 1..Len(u) : i < j => u[t[i]].val >= u[t[j]].val}}

\* n = int(N * config['cutoff']) (line 126), the cutoff in percent.
CutN(N, cutoff) == (N * cutoff) \div 100

\* features_df.index[:n] (line 128).
FirstN(u, n) == SubSeq(u, 1, Min(n, Len(u)))

\* inference, lines 120-128: predict, keep the positive, sort, cut.
InferScore ==
    /\ pc = "score"
    /\ uplift' = Predict(pipeline, XframeOf(SortedSeq(1..Len(FileRows))))
    /\ \E sorted \in SortedDesc(Positive(uplift')) :
         /\ features_df' = [i \in 1..Len(sorted) |-> sorted[i].pos]
         /\ customers' = [i \in 1..Len(FirstN(sorted, CutN(Len(sorted), config.cutoff))) |->
                             [pos |-> sorted[i].pos, idx |-> FileRows[sorted[i].pos].idx]]
    /\ pc' = "write_submit"
    /\ UNCHANGED <<fsVars, runs, err, task, name, config, cfgfile, tables, dirsAtStart,
                   created, log, Xcols, split, pipeline, fitCalls,
                   upliftCalls, example_df, history, sw>>

\* customers.to_csv into {name}_submit.csv (line 129). inference returns.
InferWrite ==
    /\ pc = "write_submit"
    /\ submit' = [submit EXCEPT ![name] =
                     [kind |-> "file",
                      customers |-> [i \in 1..Len(customers) |-> customers[i].idx]]]
    /\ log' = Append(log, "write:submit")
    /\ Complete
    /\ UNCHANGED <<srcRows, dataFiles, dirs, features, artifact, histf, metricsf, examplesf,
                   runs, task, name, config, cfgfile, tables, dirsAtStart, created,
                   dataVars, sw>>

(* ---------------------------- score_wrapper ---------------------------- *)

Users == {1, 2}

Artists == {1, 2}

\* The estimators handed to the scorer: pipelines of the dictionary
\* pipelines, and objects that are no Pipeline (a bare recommender).
Estimators ==
    [kind : {"Pipeline"}, id : {"baseline", "pure_svd"}]
        \cup [kind : {"Recommender"}, id : {"baseline"}]

\* The arguments X: interaction rows (user id, artist id), in any order.
RECURSIVE SeqsUpTo(_, _)
SeqsUpTo(S, n) ==
    IF n = 0 THEN {<<>>}
    ELSE SeqsUpTo(S, n - 1) \cup {Append(q, x) : q \in SeqsUpTo(S, n - 1), x \in S}

XArgs == SeqsUpTo([user : Users, artist : Artists], MaxX)

\* The arguments y: None, or some labels.
YArgs == {"None", "labels"}

\* DataFrame(X).groupby(USER_ID)[ARTIST_ID].agg(to_list).to_numpy()
\* (lines 39-44): one list per user of X, the users in increasing order,
\* each list holding the user's artists in row order.
GroupBy(X) ==
    LET users == SortedSeq({X[i].user : i \in 1..Len(X)})
    IN  [g \in 1..Len(users) |->
            LET mine == SelectSeq(X, LAMBDA r : r.user = users[g])
            IN  [i \in 1..Len(mine) |-> mine[i].artist]]

\* estimator.predict(X, k=...) (line 48): the library's result for these
\* arguments.
PredictCall(est, X, k) == [fn |-> "predict", estimator |-> est, X |-> X, k |-> k]

\* ndcg_score(y_true, y_pred, k) (line 52): the metric's value for these
\* arguments.
NdcgCall(y_true, y_pred, k) == [fn |-> "ndcg_score", y_true |-> y_true, y_pred |-> y_pred, k |-> k]

SwStart(est, X, y, k) ==
    [pc |-> "enter", estimator |-> est, X |-> X, y |-> y, AT_K |-> k,
     y_true |-> <<>>, calls |-> <<>>, result |-> [fn |-> "none"], raised |-> ""]

\* A variant of ScoreEnter that accepts every estimator.
ScoreEnter_DuckTyped ==
    /\ sw.pc = "enter"
    /\ sw' = [sw EXCEPT !.pc = "group"]
    /\ UNCHANGED <<fsVars, procVars, dataVars, history>>

\* isinstance(estimator, Pipeline) (lines 36, 53-54).
ScoreEnter ==
    /\ sw.pc = "enter"
    /\ IF sw.estimator.kind = "Pipeline"
         THEN sw' = [sw EXCEPT !.pc = "group"]
         ELSE sw' = [sw EXCEPT !.pc = "raised", !.raised = "ValueError"]
    /\ UNCHANGED <<fsVars, procVars, dataVars, history>>

\* y_true (lines 39-44).
ScoreGroup ==
    /\ sw.pc = "group"
    /\ sw' = [sw EXCEPT !.pc = "predict", !.y_true = GroupBy(sw.X)]
    /\ UNCHANGED <<fsVars, procVars, dataVars, history>>

\* y_pred = estimator.predict(X, k=constants.AT_K) and
\* return ndcg_score(y_true, y_pred, constants.AT_K) (lines 48-52).
ScoreReturn ==
    /\ sw.pc = "predict"
    /\ LET y_pred == PredictCall(sw.estimator, sw.X, sw.AT_K)
           score  == NdcgCall(sw.y_true, y_pred, sw.AT_K)
       IN  sw' = [sw EXCEPT !.pc = "returned", !.calls = <<y_pred, score>>, !.result = score]
    /\ UNCHANGED <<fsVars, procVars, dataVars, history>>

\* One call of score_wrapper, with any arguments and any value of
\* constants.AT_K; the command line is not running.
InitScore ==
    /\ dataFiles = {} /\ srcRows = <<>> /\ dirs = {}
    /\ features = [n \in Names |-> NoFile]
    /\ artifact = [n \in Names |-> NoFile]
    /\ histf = [n \in Names |-> NoFile]
    /\ metricsf = [n \in Names |-> NoFile]
    /\ examplesf = [n \in Names |-> NoFile]
    /\ submit = [n \in Names |-> NoFile]
    /\ history = [n \in Names |-> {}]
    /\ ProcInit
    /\ DataInit
    /\ \E est \in Estimators, X \in XArgs, y \in YArgs, k \in 1..MaxAtK :
         sw = SwStart(est, X, y, k)

NextScore ==
    \/ ScoreEnter
    \/ ScoreGroup
    \/ ScoreReturn

SpecScore == InitScore /\ [][NextScore]_vars

Next ==
    \/ StartRun
    \/ InitDirs
    \/ RegisterTables
    \/ LoadConfig
    \/ Dispatch
    \/ Featurize
    \/ TrainPrepare
    \/ TrainFit
    \/ TrainEvaluate
    \/ TrainWrite
    \/ InferRead
    \/ InferLoad
    \/ InferScore
    \/ InferWrite

Spec == Init /\ [][Next]_vars

(* ------------------------------ properties ----------------------------- *)

Ended == pc \in {"done", "failed"}

\* The positions of the event e in the log.
At(e) == {i \in 1..Len(log) : log[i] = e}

Before(e, i) == \E j \in At(e) : j < i

ProgramFiles == <<features, artifact, histf, metricsf, examplesf, submit>>

EvalEvents == {"uplift", "hist", "metrics", "examples"}

MetricWrites == {"write:hist", "write:metrics", "write:examples"}

\* C1: an inference run that returned wrote to {name}_submit.csv the index
\* of exactly n = floor(N * cutoff) rows, N being the number of rows of
\* predicted uplift > 0: all of them of uplift > 0, in order of uplift from
\* highest to lowest, and none of lower uplift than a row left out.
C1_SubmitTopPositive ==
    (task = "inference" /\ pc = "done") =>
        LET positive == {p \in 1..Len(uplift) : uplift[p].val > 0}
            n        == (Cardinality(positive) * config.cutoff) \div 100
            written  == {customers[i].pos : i \in 1..Len(customers)}
        IN  /\ Len(uplift) = Len(FileRows)
            /\ \A p \in 1..Len(uplift) : uplift[p].pos = p
            /\ Len(customers) = n
            /\ Cardinality(written) = n
            /\ written \subseteq positive
            /\ \A p \in written, q \in (1..Len(uplift)) \ written :
                   uplift[p].val >= uplift[q].val
            /\ \A i, j \in 1..Len(customers) :
                   i < j => uplift[customers[i].pos].val >= uplift[customers[j].pos].val
            /\ submit[name] = [kind |-> "file",
                               customers |-> [i \in 1..n |-> FileRows[customers[i].pos].idx]]

\* C1's case: a cut strictly inside the positive rows, which are not all rows.
C1_Witness ==
    /\ task = "inference" /\ pc = "done"
    /\ Len(customers) > 0
    /\ Len(customers) < Cardinality({p \in 1..Len(uplift) : uplift[p].val > 0})
    /\ Cardinality({p \in 1..Len(uplift) : uplift[p].val > 0}) < Len(uplift)

\* An inference run finds a file missing: it fails, having written nothing.
InferenceNeedsFiles ==
    (task = "inference" /\ log # <<>> /\ (features[name] = NoFile \/ artifact[name] = NoFile))
        => /\ pc \in {"inference", "load", "failed"}
           /\ pc = "failed" => err = "FileNotFoundError"
           /\ "write:submit" \notin Range(log)

\* C2, as claimed: train completes for a name only after featurise completed
\* for it, inference only after both featurise and train completed for it,
\* and an inference run that lacks a file fails without writing the submit.
C2_Original ==
    /\ \A n \in Names :
         /\ "train" \in history[n] => "featurise" \in history[n]
         /\ "inference" \in history[n] => {"featurise", "train"} \subseteq history[n]
    /\ InferenceNeedsFiles

\* C2, amended: train completes for a name only after featurise completed
\* for it, inference only after featurise completed for it and a train run
\* for it wrote the artifact (that run need not have completed); the files
\* exist exactly when such a run happened, and an inference run that lacks a
\* file fails without writing the submit.
C2_Amended ==
    /\ \A n \in Names :
         /\ "train" \in history[n] => "featurise" \in history[n]
         /\ "artifact" \in history[n] => "featurise" \in history[n]
         /\ "inference" \in history[n] => {"featurise", "artifact"} \subseteq history[n]
         /\ features[n] # NoFile <=> "featurise" \in history[n]
         /\ artifact[n] # NoFile <=> "artifact" \in history[n]
         /\ submit[n] # NoFile <=> "inference" \in history[n]
    /\ InferenceNeedsFiles

\* C2's case: inference completed for a name for which no train run did.
C2_Witness == \E n \in Names : "inference" \in history[n] /\ "train" \notin history[n]

C4_FitOnTrainOnly ==
    /\ Len(fitCalls) <= 1
    /\ At("fit") # {} <=> Len(fitCalls) = 1
    /\ \A k \in 1..Len(fitCalls) :
         LET c == fitCalls[k]
         IN  /\ c.stages = <<"transform", "select", "model">>
             /\ [i \in 1..Len(c.X) |-> c.X[i].pos] = split.train
             /\ [i \in 1..Len(c.y) |-> c.y[i].pos] = split.train
             /\ \A i \in 1..Len(c.y) : c.y[i].val = Yser[c.y[i].pos].val
             /\ Cardinality(c.fit_params) = 1
             /\ \A fp \in c.fit_params :
                  /\ fp.step = "model" /\ fp.param = "w"
                  /\ [i \in 1..Len(fp.value) |-> fp.value[i].pos] = split.train
                  /\ \A i \in 1..Len(fp.value) : fp.value[i].val = Wser[fp.value[i].pos].val
             /\ {c.X[i].pos : i \in 1..Len(c.X)} \cap Range(split.test) = {}

\* C4's case: fit was called on a training part of two rows or more, the test
\* part holding two rows or more.
C4_Witness == Len(fitCalls) = 1 /\ Len(split.train) >= 2 /\ Len(split.test) >= 2

\* The per-user lists of the artists of X: one list per user, the users in
\* increasing order, each list in row order.
GroupedFrom(Y, X) ==
    LET us == {X[i].user : i \in 1..Len(X)}
    IN  /\ Len(Y) = Cardinality(us)
        /\ \A u \in us :
             LET g    == Cardinality({v \in us : v <= u})
                 rows == {i \in 1..Len(X) : X[i].user = u}
             IN  /\ Len(Y[g]) = Cardinality(rows)
                 /\ \A i \in rows :
                      Y[g][Cardinality({j \in rows : j <= i})] = X[i].artist

\* C5: for a Pipeline, score_wrapper returns ndcg_score at AT_K of
\* estimator.predict(X, k=AT_K) against the per-user artist lists of X,
\* whatever y is; for any other estimator it raises ValueError, and neither
\* predict nor ndcg_score is called.
C5_ScoreWrapper ==
    /\ sw.pc = "returned" =>
         /\ sw.estimator.kind = "Pipeline"
         /\ GroupedFrom(sw.y_true, sw.X)
         /\ sw.result = [fn |-> "ndcg_score", y_true |-> sw.y_true,
                         y_pred |-> [fn |-> "predict", estimator |-> sw.estimator,
                                     X |-> sw.X, k |-> sw.AT_K],
                         k |-> sw.AT_K]
         /\ sw.raised = ""
    /\ sw.pc = "raised" => sw.raised = "ValueError"
    /\ sw.estimator.kind # "Pipeline" =>
         /\ sw.pc \in {"enter", "raised"}
         /\ sw.calls = <<>>
         /\ sw.result = [fn |-> "none"]
    /\ sw.estimator.kind = "Pipeline" => sw.pc # "raised"

\* C5's case: a score returned for rows of two users, y being given.
C5_Witness == sw.pc = "returned" /\ Len(sw.y_true) = 2 /\ sw.y = "labels"

\* C6: once a task function was entered, _init has registered the three
\* tables and the three output directories exist; _init makes only the
\* output directories that were absent, and removes none.
C6_InitBeforeTask ==
    /\ (pc \in {"featurize", "train", "inference"} \/ log # <<>>) =>
         /\ tables = SourceTables
         /\ OutDirs \subseteq dirs
    /\ Range(created) \cap dirsAtStart = {}
    /\ Range(created) \subseteq OutDirs
    /\ dirsAtStart \subseteq dirs
    /\ dirs \subseteq dirsAtStart \cup Range(created)

\* C6's case: a task function was entered after _init made some directories
\* and found others.
C6_Witness == log # <<>> /\ created # <<>> /\ dirsAtStart # {}

\* C7: in a train run the artifact is written right after fit and before
\* every evaluation step; the metrics files are written hist, metrics,
\* examples, after all evaluation results were computed and only by a run
\* that wrote the artifact; a run that fails during the evaluation leaves
\* its artifact on disk and writes no metrics file.
C7_TrainWriteOrder ==
    /\ \A i \in At("fit") : i < Len(log) /\ log[i + 1] = "write:artifact"
    /\ \A i \in At("write:artifact") : i > 1 /\ log[i - 1] = "fit"
    /\ \A i \in 1..Len(log) :
         /\ log[i] \in EvalEvents => Before("write:artifact", i)
         /\ log[i] \in MetricWrites =>
              /\ Before("write:artifact", i)
              /\ \A e \in EvalEvents : Before(e, i)
         /\ log[i] = "write:hist" => log[i - 1] = "examples"
         /\ log[i] = "write:metrics" => log[i - 1] = "write:hist"
         /\ log[i] = "write:examples" => log[i - 1] = "write:metrics"
    /\ (task = "train" /\ pc = "failed" /\ At("uplift") # {}) =>
         /\ artifact[name] = [kind |-> "file", pipeline |-> pipeline]
         /\ Range(log) \cap MetricWrites = {}
    /\ (task = "train" /\ pc = "done") =>
         /\ histf[name] # NoFile /\ metricsf[name] # NoFile /\ examplesf[name] # NoFile
         /\ artifact[name] = [kind |-> "file", pipeline |-> pipeline]

\* C7's case: a train run failed in the evaluation, after the histogram.
C7_Witness ==
    /\ task = "train" /\ pc = "failed" /\ At("hist") # {}
    /\ artifact[name] # NoFile /\ histf[name] = NoFile

\* C8, as claimed: in every call of uplift_at_k the predictions, the
\* treatment flags and the targets have one length and entry i of each is of
\* the same row, a row of the test part.
C8_SameRows ==
    \A k \in 1..Len(upliftCalls) :
        LET c == upliftCalls[k]
        IN  /\ Len(c.uplift) = Len(c.w)
            /\ Len(c.uplift) = Len(c.y)
            /\ \A i \in 1..Len(c.uplift) :
                 /\ c.uplift[i].pos = split.test[i]
                 /\ c.w[i].pos = c.uplift[i].pos
                 /\ c.y[i].pos = c.uplift[i].pos

\* C9, as claimed: the two parts are disjoint and cover the sampled rows,
\* and every row of the examples table carries the label of its part,
\* assigned once.
C9_Labels ==
    example_df # <<>> =>
        /\ Range(split.train) \cap Range(split.test) = {}
        /\ Range(split.train) \cup Range(split.test) = 1..Len(features_df)
        /\ Len(example_df) = Len(features_df)
        /\ \A p \in 1..Len(example_df) :
             /\ example_df[p].sample = (IF p \in Range(split.train) THEN "train" ELSE "test")
             /\ example_df[p].assigned = 1

====
